---- MODULE Spec2Model ----
(***************************************************************************)
(* Sonauto proxy: the request handlers of the HTTP server and the          *)
(* background work they start (handlePolling, handleAcestepGeneration),    *)
(* as one state machine.  One "slot" is one inbound HTTP request together  *)
(* with the background work it spawns.  Node runs every handler to its     *)
(* next await without interleaving, so one action is one such synchronous  *)
(* segment: from the event that resumes it (request arrival, a fetch that  *)
(* settles, a timer that fires, a stream chunk) to the next await.         *)
(*                                                                         *)
(* Strings the code inspects (host names, task ids, file names) are        *)
(* sequences of tokens; a token is a piece of text that the code's string  *)
(* tests never split.                                                      *)
(***************************************************************************)
EXTENDS Integers, Sequences, FiniteSets, TLC

\* ------------------------------------------------------------------ bounds
MaxSlots == 3          \* requests (and the tasks they spawn) handled at once
MaxEnvAttempts == 3    \* largest MAX_POLL_ATTEMPTS the environment sets
MaxPaths == 2          \* most song_paths in one SUCCESS answer
MaxClock == 2          \* distinct values Date.now() takes

\* ------------------------------------------------------- program constants
DefaultMaxAttempts == 60
DefaultBaseDelay == 4000
DelayCeiling == 20000
BackoffNum == 6        \* the factor 1.2 = 6/5
BackoffDen == 5

Slots == 1..MaxSlots

VARIABLES
  env,         \* process.env as read at startup (API_KEY, AUTO_DOWNLOAD, ...)
  req,         \* req[r]: the inbound request of slot r, or NoReq
  pc,          \* pc[r]: where slot r's handler / background task is suspended
  trace,       \* trace[r]: what slot r has done so far, in program order
  attempt,     \* handlePolling's local attempt
  taskId,      \* the task id of slot r (token sequence), <<>> before it has one
  mode,        \* handlePolling's parameter mode
  song_paths,  \* number of entries of statusRes.song_paths being saved
  j,           \* handlePolling's loop index j (0-based, as in the code)
  delay,       \* the last backoff delay computed: <<numerator, denominator>>
  files,       \* OUTPUT_DIR: file name -> content (sequence of chunks)
  writes,      \* every write target opened so far: [by, idx, name]
  now,         \* Date.now()
  rd,          \* rd[r]: read stream of GET /download/:taskId: [name, pos, out]
  res,         \* res[r]: the response heads and bodies written to request r
  written      \* every <<file name, content>> a write has completed

vars == <<env, req, pc, trace, attempt, taskId, mode, song_paths, j, delay,
          files, writes, now, rd, res, written>>

\* ------------------------------------------------------------ text helpers
DigitTok == <<"0", "1", "2", "3", "4", "5", "6", "7", "8", "9">>

\* NumText(n): the decimal text of a non-negative integer (template literal ${n})
RECURSIVE NumText(_)
NumText(n) ==
  IF n < 10 THEN <<DigitTok[n + 1]>>
  ELSE NumText(n \div 10) \o <<DigitTok[(n % 10) + 1]>>

\* s.startsWith(p)
StartsWith(s, p) ==
  /\ Len(s) >= Len(p)
  /\ SubSeq(s, 1, Len(p)) = p

\* s.endsWith(p)
EndsWith(s, p) ==
  /\ Len(s) >= Len(p)
  /\ SubSeq(s, Len(s) - Len(p) + 1, Len(s)) = p

\* s.includes(p)
Includes(s, p) ==
  \E i \in 1..(Len(s) + 1) :
     /\ i + Len(p) - 1 <= Len(s)
     /\ SubSeq(s, i, i + Len(p) - 1) = p

Ev(e, a) == [ev |-> e, arg |-> a]

Count(tr, e) == Cardinality({i \in 1..Len(tr) : tr[i].ev = e})
CountArg(tr, e, a) == Cardinality({i \in 1..Len(tr) : tr[i] = Ev(e, a)})

\* ------------------------------------------------------------ environment
\* process.env.X === 'true', !!process.env.X: what the server keeps of each
\* variable.  MAX_POLL_ATTEMPTS / POLL_BASE_DELAY_MS hold Number(process.env.X)
\* with 0 standing for unset, empty, "0" and NaN alike (all falsy).
BaseDelays == {0, 15000}

Envs ==
  [API_KEY : BOOLEAN, AUTO_DOWNLOAD : BOOLEAN, USE_S3 : BOOLEAN,
   CLIENT_API_KEY : BOOLEAN,
   MAX_POLL_ATTEMPTS : 0..MaxEnvAttempts,
   POLL_BASE_DELAY_MS : BaseDelays]

\* const maxAttempts = Number(process.env.MAX_POLL_ATTEMPTS) || 60
maxAttempts ==
  IF env.MAX_POLL_ATTEMPTS = 0 THEN DefaultMaxAttempts ELSE env.MAX_POLL_ATTEMPTS

\* const baseDelay = Number(process.env.POLL_BASE_DELAY_MS) || 4000
baseDelay ==
  IF env.POLL_BASE_DELAY_MS = 0 THEN DefaultBaseDelay ELSE env.POLL_BASE_DELAY_MS

\* Faulty variant of BackoffDelay: the Math.min with the ceiling is missing.
RECURSIVE BackoffDelayNoCap(_, _)
BackoffDelayNoCap(base, att) ==
  IF att = 0 THEN <<base, 1>>
  ELSE LET p == BackoffDelayNoCap(base, att - 1)
           n == p[1] * BackoffNum
       IN IF n % BackoffDen = 0 THEN <<n \div BackoffDen, p[2]>>
          ELSE <<n, p[2] * BackoffDen>>

\* Math.min(baseDelay * Math.pow(1.2, attempt), 20000) as an exact fraction
\* <<numerator, denominator>> in lowest terms (the denominator is a power of
\* 5), one factor of 1.2 at a time; once the product passes the ceiling it
\* stays there, 1.2 being > 1.
BackoffStep(p) ==
  LET n == p[1] * BackoffNum
      q == IF n % BackoffDen = 0 THEN <<n \div BackoffDen, p[2]>>
           ELSE <<n, p[2] * BackoffDen>>
  IN IF q[1] <= DelayCeiling * q[2] THEN q ELSE <<DelayCeiling, 1>>

RECURSIVE BackoffFrom(_, _)
BackoffFrom(d, k) ==
  IF k = 0 \/ d = <<DelayCeiling, 1>> THEN d
  ELSE BackoffFrom(BackoffStep(d), k - 1)

BackoffDelay(base, att) ==
  BackoffFrom(IF base <= DelayCeiling THEN <<base, 1>> ELSE <<DelayCeiling, 1>>, att)

\* --------------------------------------------------------- Sonauto upstream
\* What the Sonauto API can answer to one fetch: the fetch rejects (transport
\* error), or resolves with res.ok and a body that is not JSON ("raw"), the
\* JSON value null, or a JSON object with the fields the code reads.
NoId == <<>>
Absent == 0 - 1

Reply(f, ok, body, st, paths, tid, id) ==
  [fetch |-> f, ok |-> ok, body |-> body, status |-> st, song_paths |-> paths,
   task_id |-> tid, id |-> id]

StatusReplies ==
  {Reply("reject", FALSE, "raw", "absent", Absent, NoId, NoId)}
  \cup {Reply("resolve", FALSE, b, "absent", Absent, NoId, NoId) : b \in {"raw", "object"}}
  \cup {Reply("resolve", TRUE, b, "absent", Absent, NoId, NoId) : b \in {"raw", "null", "object"}}
  \cup {Reply("resolve", TRUE, "object", st, Absent, NoId, NoId) : st \in {"PROCESSING", "FAILURE", "SUCCESS"}}
  \cup {Reply("resolve", TRUE, "object", "SUCCESS", n, NoId, NoId) : n \in 0..MaxPaths}

\* safeJsonResponse: JSON.parse(text), or { _raw: text } when that throws
safeJsonResponse(reply) ==
  IF reply.body = "raw"
  THEN [_raw |-> TRUE, isNull |-> FALSE, status |-> "absent", song_paths |-> Absent,
        task_id |-> NoId, id |-> NoId]
  ELSE [_raw |-> FALSE, isNull |-> reply.body = "null", status |-> reply.status,
        song_paths |-> reply.song_paths, task_id |-> reply.task_id, id |-> reply.id]

\* Faulty variant of apiCall: a non-2xx answer is returned like any other.
apiCallNoThrow(reply) ==
  [threw |-> reply.fetch = "reject", value |-> safeJsonResponse(reply)]

\* apiCall after its fetch settled: throws when the fetch rejected or the
\* answer is not 2xx, else returns the parsed body.
apiCall(reply) ==
  IF reply.fetch = "reject" THEN [threw |-> TRUE, value |-> safeJsonResponse(reply)]
  ELSE [threw |-> ~reply.ok, value |-> safeJsonResponse(reply)]

\* ------------------------------------------------------------ handlePolling
TerminalLogs == {"Generation completed", "Generation failed", "Polling timeout"}
EndLogs == TerminalLogs \cup {"Polling error"}

\* const baseName = mode === 'custom' ? ... ; const filename = `${baseName}_${taskId}_${j + 1}.mp3`
TrackFilename(m, id, jj) ==
  LET baseName == IF m = "custom" THEN "custom_lyrics"
                  ELSE IF m = "prompt" THEN "prompt_generated" ELSE "instrumental"
  IN <<baseName, "_">> \o id \o <<"_">> \o NumText(jj + 1) \o <<".mp3">>

\* Faulty variant of LoopHead: the loop test is attempt <= maxAttempts.
LoopHeadOffByOne(att, tr) ==
  IF att <= maxAttempts
  THEN [pc |-> "query", attempt |-> att + 1, trace |-> Append(tr, Ev("query", att + 1))]
  ELSE [pc |-> "done", attempt |-> att, trace |-> Append(tr, Ev("Polling timeout", att))]

\* Faulty variant of LoopHead: when the attempts are used up the timer is
\* armed again instead of giving up.
LoopHeadNoTimeout(att, tr) ==
  IF att < maxAttempts
  THEN [pc |-> "query", attempt |-> att + 1, trace |-> Append(tr, Ev("query", att + 1))]
  ELSE [pc |-> "timer", attempt |-> att, trace |-> tr]

\* The head of the while loop, run after the call of handlePolling and after
\* each backoff timer: while (attempt < maxAttempts) { attempt++; apiCall(...)
\* checks the key and issues the fetch } ... log('Polling timeout').
LoopHead(att, tr) ==
  IF att < maxAttempts
  THEN IF env.API_KEY
       THEN [pc |-> "query", attempt |-> att + 1, trace |-> Append(tr, Ev("query", att + 1))]
       ELSE [pc |-> "done", attempt |-> att + 1, trace |-> Append(tr, Ev("Polling error", att + 1))]
  ELSE [pc |-> "done", attempt |-> att, trace |-> Append(tr, Ev("Polling timeout", att))]

\* The head of the for loop over song_paths: with AUTO_DOWNLOAD the next
\* downloadAndSaveTrack is called (its fetch issued); without it the loop
\* runs to its end; then log('Generation completed'); return.
SaveLoop(jj, n, tr) ==
  IF jj < n /\ env.AUTO_DOWNLOAD
  THEN [pc |-> "saveFetch", j |-> jj, trace |-> Append(tr, Ev("downloadAndSaveTrack", jj + 1))]
  ELSE [pc |-> "done", j |-> n, trace |-> Append(tr, Ev("Generation completed", n))]

\* Faulty variant of Classify: FAILURE is not told from a pending status.
ClassifyFailurePending(statusRes) ==
  IF statusRes.status = "SUCCESS" THEN "SUCCESS" ELSE "PENDING"

\* statusRes.status === 'SUCCESS' is tested first, then === 'FAILURE'
Classify(statusRes) ==
  IF statusRes.status = "SUCCESS" THEN "SUCCESS"
  ELSE IF statusRes.status = "FAILURE" THEN "FAILURE"
  ELSE "PENDING"

\* Faulty variant of Failed: the return after the log is missing, so the
\* loop goes on to the backoff.
FailedNoReturn(att, tr) ==
  [pc |-> "timer",
   trace |-> Append(Append(tr, Ev("Generation failed", att)), Ev("setTimeout", att))]

\* if (statusRes.status === 'FAILURE') { log('Generation failed', statusRes); return; }
Failed(att, tr) ==
  [pc |-> "done", trace |-> Append(tr, Ev("Generation failed", att))]

\* statusRes.song_paths || []
PathCount(statusRes) == IF statusRes.song_paths = Absent THEN 0 ELSE statusRes.song_paths

\* handlePolling(taskId, mode, payload), up to its first await
StartPolling(r, id, m, tr) ==
  LET h == LoopHead(0, tr) IN
  /\ taskId' = [taskId EXCEPT ![r] = id]
  /\ mode' = [mode EXCEPT ![r] = m]
  /\ attempt' = [attempt EXCEPT ![r] = h.attempt]
  /\ pc' = [pc EXCEPT ![r] = h.pc]
  /\ trace' = [trace EXCEPT ![r] = h.trace]

\* log('Poll', { taskId, attempt, status: statusRes.status }): the status
\* logged, kept as far as the tests below tell statuses apart
PollLog(statusRes) ==
  IF statusRes.status = "SUCCESS" THEN "Poll SUCCESS"
  ELSE IF statusRes.status = "FAILURE" THEN "Poll FAILURE"
  ELSE "Poll other"

\* the status query settles: lines 458-488
PollSettled(r, reply) ==
  LET got == apiCall(reply)
      tr == Append(trace[r], Ev(PollLog(got.value), attempt[r]))
  IN
  /\ pc[r] = "query"
  /\ IF got.threw \/ got.value.isNull
     THEN /\ pc' = [pc EXCEPT ![r] = "done"]
          /\ trace' = [trace EXCEPT ![r] = Append(@, Ev("Polling error", attempt[r]))]
          /\ UNCHANGED <<song_paths, j, delay>>
     ELSE IF Classify(got.value) = "SUCCESS"
     THEN LET n == PathCount(got.value)
              s == SaveLoop(0, n, tr)
          IN /\ song_paths' = [song_paths EXCEPT ![r] = n]
             /\ j' = [j EXCEPT ![r] = s.j]
             /\ pc' = [pc EXCEPT ![r] = s.pc]
             /\ trace' = [trace EXCEPT ![r] = s.trace]
             /\ UNCHANGED delay
     ELSE IF Classify(got.value) = "FAILURE"
     THEN /\ pc' = [pc EXCEPT ![r] = Failed(attempt[r], tr).pc]
          /\ trace' = [trace EXCEPT ![r] = Failed(attempt[r], tr).trace]
          /\ UNCHANGED <<song_paths, j, delay>>
     ELSE /\ delay' = [delay EXCEPT ![r] = BackoffDelay(baseDelay, attempt[r])]
          /\ pc' = [pc EXCEPT ![r] = "timer"]
          /\ trace' = [trace EXCEPT ![r] = Append(tr, Ev("setTimeout", attempt[r]))]
          /\ UNCHANGED <<song_paths, j>>
  /\ UNCHANGED <<env, req, attempt, taskId, mode, files, writes, now, rd, res, written>>

PollResponse(r) == \E reply \in StatusReplies : PollSettled(r, reply)

\* Faulty variant of PollTimer: the attempt counter is one variable of the
\* module, shared by all the trackers, instead of a local of handlePolling.
PollTimerShared(r) ==
  LET h == LoopHead(attempt[r], trace[r]) IN
  /\ pc[r] = "timer"
  /\ attempt' = [q \in Slots |-> IF pc[q] = "idle" THEN attempt[q] ELSE h.attempt]
  /\ pc' = [pc EXCEPT ![r] = h.pc]
  /\ trace' = [trace EXCEPT ![r] = h.trace]
  /\ UNCHANGED <<env, req, taskId, mode, song_paths, j, delay, files, writes, now, rd, res, written>>

\* the backoff timer fires: back to the head of the while loop
PollTimer(r) ==
  LET h == LoopHead(attempt[r], trace[r]) IN
  /\ pc[r] = "timer"
  /\ attempt' = [attempt EXCEPT ![r] = h.attempt]
  /\ pc' = [pc EXCEPT ![r] = h.pc]
  /\ trace' = [trace EXCEPT ![r] = h.trace]
  /\ UNCHANGED <<env, req, taskId, mode, song_paths, j, delay, files, writes, now, rd, res, written>>

\* ----------------------------------------------------- downloadAndSaveTrack
\* Audio payloads: sequences of chunks, as a stream delivers them.
Payloads == {<<"a1", "a2">>, <<"b1", "b2">>}

PutFile(fs, name, content) == [n \in DOMAIN fs \cup {name} |-> IF n = name THEN content ELSE fs[n]]

\* Faulty variant of NextTrack: a failed save is retried (j is not advanced).
NextTrackRetry(r, logged) ==
  LET jj == IF logged = "Save failed" THEN j[r] ELSE j[r] + 1
      s == SaveLoop(jj, song_paths[r], Append(trace[r], Ev(logged, j[r] + 1)))
  IN
  /\ j' = [j EXCEPT ![r] = s.j]
  /\ pc' = [pc EXCEPT ![r] = s.pc]
  /\ trace' = [trace EXCEPT ![r] = s.trace]

\* Faulty variant of NextTrack: a failed save leaves the for loop and ends
\* the task with the error.
NextTrackAbort(r, logged) ==
  LET tr == Append(trace[r], Ev(logged, j[r] + 1))
      s == IF logged = "Save failed"
           THEN [pc |-> "done", j |-> j[r], trace |-> Append(tr, Ev("Polling error", attempt[r]))]
           ELSE SaveLoop(j[r] + 1, song_paths[r], tr)
  IN
  /\ j' = [j EXCEPT ![r] = s.j]
  /\ pc' = [pc EXCEPT ![r] = s.pc]
  /\ trace' = [trace EXCEPT ![r] = s.trace]

\* after downloadAndSaveTrack returned or threw (both are only logged):
\* j++ and the for loop's head again
NextTrack(r, logged) ==
  LET s == SaveLoop(j[r] + 1, song_paths[r], Append(trace[r], Ev(logged, j[r] + 1))) IN
  /\ j' = [j EXCEPT ![r] = s.j]
  /\ pc' = [pc EXCEPT ![r] = s.pc]
  /\ trace' = [trace EXCEPT ![r] = s.trace]

\* fetch(trackUrl) settles: a rejection or a non-2xx answer throws; otherwise
\* fs.createWriteStream(filePath) opens (and truncates) the target
SaveFetchSettled(r, ok) ==
  LET name == TrackFilename(mode[r], taskId[r], j[r]) IN
  /\ pc[r] = "saveFetch"
  /\ IF ok
     THEN /\ files' = PutFile(files, name, <<>>)
          /\ writes' = writes \cup {[by |-> r, idx |-> j[r] + 1, name |-> name]}
          /\ pc' = [pc EXCEPT ![r] = "saveStream"]
          /\ trace' = [trace EXCEPT ![r] = Append(trace[r], Ev("createWriteStream", j[r] + 1))]
          /\ UNCHANGED j
     ELSE /\ NextTrack(r, "Save failed")
          /\ UNCHANGED <<files, writes>>
  /\ UNCHANGED <<env, req, attempt, taskId, mode, song_paths, delay, now, rd, res, written>>

SaveFetchResponse(r) == \E ok \in BOOLEAN : SaveFetchSettled(r, ok)

\* streamPipeline(res.body, fileStream) settles: the whole body is in the
\* file, or the stream broke and only its first chunk is; then the S3 upload
\* is started when configured
SaveStreamSettled(r, body, ok) ==
  LET name == TrackFilename(mode[r], taskId[r], j[r]) IN
  /\ pc[r] = "saveStream"
  /\ files' = PutFile(files, name, IF ok THEN body ELSE SubSeq(body, 1, 1))
  /\ written' = IF ok THEN written \cup {<<name, body>>} ELSE written
  /\ IF ~ok
     THEN NextTrack(r, "Save failed")
     ELSE IF env.USE_S3
     THEN /\ pc' = [pc EXCEPT ![r] = "saveS3"]
          /\ trace' = [trace EXCEPT ![r] = Append(trace[r], Ev("putObject", j[r] + 1))]
          /\ UNCHANGED j
     ELSE NextTrack(r, "Saved track")
  /\ UNCHANGED <<env, req, attempt, taskId, mode, song_paths, delay, writes, now, rd, res>>

SaveStreamDone(r) == \E body \in Payloads, ok \in BOOLEAN : SaveStreamSettled(r, body, ok)

\* s3.putObject(params).promise() settles
SaveS3Settled(r, ok) ==
  /\ pc[r] = "saveS3"
  /\ NextTrack(r, IF ok THEN "Saved track" ELSE "Save failed")
  /\ UNCHANGED <<env, req, attempt, taskId, mode, song_paths, delay, files, writes, now, rd, res, written>>

SaveS3Done(r) == \E ok \in BOOLEAN : SaveS3Settled(r, ok)

\* ------------------------------------------------------------ initial state
NoReq == [kind |-> "none"]
NoRead == [name |-> <<>>, pos |-> 0, out |-> <<>>]
EmptyFiles == [n \in {} |-> <<>>]

InitSlots ==
  /\ req = [r \in Slots |-> NoReq]
  /\ pc = [r \in Slots |-> "idle"]
  /\ trace = [r \in Slots |-> <<>>]
  /\ attempt = [r \in Slots |-> 0]
  /\ taskId = [r \in Slots |-> NoId]
  /\ mode = [r \in Slots |-> "none"]
  /\ song_paths = [r \in Slots |-> 0]
  /\ j = [r \in Slots |-> 0]
  /\ delay = [r \in Slots |-> <<0, 1>>]
  /\ files = EmptyFiles
  /\ writes = {}
  /\ now = 1
  /\ rd = [r \in Slots |-> NoRead]
  /\ res = [r \in Slots |-> <<>>]
  /\ written = {}

\* ------------------------------------------- the polling tracker on its own
\* (SpecPoll)
\* Task ids the Sonauto API issues (opaque text; one holds the separator the
\* file names use).  The API issues each id once.
SonautoIds == {<<"a">>, <<"a", "_", "1">>}
Modes == {"custom", "prompt", "instrumental"}

\* handlePolling(taskId, payload.mode, payload) as POST /generate calls it:
\* the key is set and the mode is one of the three the handler accepted
StartTask(r) ==
  \E id \in SonautoIds, m \in Modes :
     /\ pc[r] = "idle"
     /\ \A q \in Slots : taskId[q] # id
     /\ StartPolling(r, id, m, trace[r])
     /\ UNCHANGED <<env, req, song_paths, j, delay, files, writes, now, rd, res, written>>

InitPoll ==
  /\ env \in {e \in Envs : e.API_KEY /\ ~e.CLIENT_API_KEY}
  /\ InitSlots

\* one tracker, followed through every answer of the upstream
PollSlots == {1}

NextPoll ==
  \E r \in PollSlots :
     \/ StartTask(r)
     \/ PollResponse(r)
     \/ PollTimer(r)
     \/ SaveFetchResponse(r)
     \/ SaveStreamDone(r)
     \/ SaveS3Done(r)

SpecPoll == InitPoll /\ [][NextPoll]_vars

\* (SpecBackoff) the tracker's backoff, for base delays below 1 ms, below,
\* near and above the ceiling; automatic saving is off.  The small and the
\* negative base delays, whose products never reach the ceiling, are paired
\* with a set MAX_POLL_ATTEMPTS.
BackoffBaseDelays == BaseDelays \cup {1, 25000, 0 - 5}

InitBackoff ==
  /\ env \in {e \in [API_KEY : {TRUE}, AUTO_DOWNLOAD : {FALSE}, USE_S3 : {FALSE},
                      CLIENT_API_KEY : {FALSE},
                      MAX_POLL_ATTEMPTS : 0..MaxEnvAttempts,
                      POLL_BASE_DELAY_MS : BackoffBaseDelays] :
                e.MAX_POLL_ATTEMPTS = 0 =>
                   (e.POLL_BASE_DELAY_MS = 0 \/ e.POLL_BASE_DELAY_MS >= 4000)}
  /\ InitSlots

NextBackoff ==
  \E r \in PollSlots :
     \/ StartTask(r)
     \/ PollResponse(r)
     \/ PollTimer(r)

SpecBackoff == InitBackoff /\ [][NextBackoff]_vars

\* setTimeout(r, delay): a delay below 1 ms is run as 1 ms
TimerDelay(d) == IF d[1] < d[2] THEN <<1, 1>> ELSE d

\* ------------------------------------ server.js: the fixed-delay tracker
LegacyMaxPolls == 150
LegacyDelay == 4000

\* apiCall of server.js after its fetch settled: throws when the fetch
\* rejected, on a non-2xx answer, and when res.json() cannot parse the body
LegacyApiCall(reply) ==
  [threw |-> reply.fetch = "reject" \/ ~reply.ok \/ reply.body = "raw",
   value |-> safeJsonResponse(reply)]

\* let baseName = "track"; ... const filename = `${baseName}_${j + 1}.mp3`
LegacyFilename(m, jj) ==
  LET baseName == IF m = "custom" THEN "custom_lyrics"
                  ELSE IF m = "prompt" THEN "prompt_generated"
                  ELSE IF m = "instrumental" THEN "instrumental" ELSE "track"
  IN <<baseName, "_">> \o NumText(jj + 1) \o <<".mp3">>

\* the catch of handlePolling: console.error with the message of what was
\* thrown (the upstream's FAILURE, the timeout, or anything else)
LegacyCaught(r, tr, what) ==
  /\ pc' = [pc EXCEPT ![r] = "done"]
  /\ trace' = [trace EXCEPT ![r] = Append(tr, Ev(what, attempt[r]))]

LegacyEndLogs ==
  {"Generation completed", "Polling error: FAILURE", "Polling error: timeout",
   "Polling error"}

\* handlePolling(taskId, payload.mode) up to its first await: i = 0 passes the
\* loop test and the 4000 ms timer is armed before any query
LegacyStartTask(r) ==
  \E id \in SonautoIds, m \in Modes :
     /\ pc[r] = "idle"
     /\ ~env.AUTO_DOWNLOAD /\ ~env.USE_S3
     /\ env.MAX_POLL_ATTEMPTS = 0 /\ env.POLL_BASE_DELAY_MS = 0
     /\ \A q \in Slots : taskId[q] # id
     /\ taskId' = [taskId EXCEPT ![r] = id]
     /\ mode' = [mode EXCEPT ![r] = m]
     /\ attempt' = [attempt EXCEPT ![r] = 0]
     /\ delay' = [delay EXCEPT ![r] = <<LegacyDelay, 1>>]
     /\ pc' = [pc EXCEPT ![r] = "legacyTimer"]
     /\ trace' = [trace EXCEPT ![r] = Append(@, Ev("setTimeout", 1))]
     /\ UNCHANGED <<env, req, song_paths, j, files, writes, now, rd, res, written>>

\* the timer fires: the status query is issued
LegacyTimer(r) ==
  /\ pc[r] = "legacyTimer"
  /\ attempt' = [attempt EXCEPT ![r] = @ + 1]
  /\ pc' = [pc EXCEPT ![r] = "legacyQuery"]
  /\ trace' = [trace EXCEPT ![r] = Append(@, Ev("query", attempt[r] + 1))]
  /\ UNCHANGED <<env, req, taskId, mode, song_paths, j, delay, files, writes, now,
                 rd, res, written>>

\* the head of the for loop over song_paths: the next download is started,
\* or the task is done
LegacySaveLoop(r, jj, n, tr) ==
  /\ j' = [j EXCEPT ![r] = jj]
  /\ IF jj < n
     THEN /\ pc' = [pc EXCEPT ![r] = "legacySaveFetch"]
          /\ trace' = [trace EXCEPT ![r] = Append(tr, Ev("downloadAndSaveTrack", jj + 1))]
     ELSE /\ pc' = [pc EXCEPT ![r] = "done"]
          /\ trace' = [trace EXCEPT ![r] = Append(tr, Ev("Generation completed", n))]

\* the status query settles: server.js lines 256-285
LegacyPollSettled(r, reply) ==
  LET got == LegacyApiCall(reply)
      tr == Append(trace[r], Ev(PollLog(got.value), attempt[r]))
  IN
  /\ pc[r] = "legacyQuery"
  /\ IF got.threw \/ got.value.isNull
     THEN /\ LegacyCaught(r, trace[r], "Polling error")
          /\ UNCHANGED <<song_paths, j>>
     ELSE IF got.value.status = "SUCCESS"
     THEN /\ song_paths' = [song_paths EXCEPT ![r] = PathCount(got.value)]
          /\ LegacySaveLoop(r, 0, PathCount(got.value), tr)
     ELSE IF got.value.status = "FAILURE"
     THEN /\ LegacyCaught(r, tr, "Polling error: FAILURE")
          /\ UNCHANGED <<song_paths, j>>
     ELSE IF attempt[r] < LegacyMaxPolls
     THEN /\ pc' = [pc EXCEPT ![r] = "legacyTimer"]
          /\ trace' = [trace EXCEPT ![r] = Append(tr, Ev("setTimeout", attempt[r] + 1))]
          /\ UNCHANGED <<song_paths, j>>
     ELSE /\ LegacyCaught(r, tr, "Polling error: timeout")
          /\ UNCHANGED <<song_paths, j>>
  /\ UNCHANGED <<env, req, attempt, taskId, mode, delay, files, writes, now, rd, res,
                 written>>

LegacyPollResponse(r) == \E reply \in StatusReplies : LegacyPollSettled(r, reply)

\* downloadAndSaveTrack of server.js: fetch(url) and res.arrayBuffer() settle
\* (a rejection or a non-2xx answer throws out of the for loop into the
\* catch); then fs.writeFileSync and the next index
LegacySaveSettled(r, body, ok) ==
  LET name == LegacyFilename(mode[r], j[r]) IN
  /\ pc[r] = "legacySaveFetch"
  /\ IF ok
     THEN /\ files' = PutFile(files, name, body)
          /\ written' = written \cup {<<name, body>>}
          /\ writes' = writes \cup {[by |-> r, idx |-> j[r] + 1, name |-> name]}
          /\ LegacySaveLoop(r, j[r] + 1, song_paths[r],
                            Append(trace[r], Ev("writeFileSync", j[r] + 1)))
     ELSE /\ LegacyCaught(r, trace[r], "Polling error")
          /\ UNCHANGED <<files, written, writes, j>>
  /\ UNCHANGED <<env, req, attempt, taskId, mode, song_paths, delay, now, rd, res>>

LegacySaveDone(r) == \E body \in Payloads, ok \in BOOLEAN : LegacySaveSettled(r, body, ok)

\* (SpecPair) two tasks tracked at once, their polling steps interleaved in
\* every order; MAX_POLL_ATTEMPTS is set, so that both run to their last
\* attempt, and automatic saving is off
PairSlots == {1, 2}

InitPair ==
  /\ env \in {e \in Envs : /\ e.API_KEY /\ ~e.CLIENT_API_KEY
                           /\ ~e.AUTO_DOWNLOAD /\ ~e.USE_S3
                           /\ e.MAX_POLL_ATTEMPTS > 0}
  /\ InitSlots

NextPair ==
  \E r \in PairSlots :
     \/ StartTask(r)
     \/ PollResponse(r)
     \/ PollTimer(r)

SpecPair == InitPair /\ [][NextPair]_vars

\* handlePolling run as one sequential program over the answers its status
\* queries get, starting with attempt = att: how it ends and the value of
\* attempt then ("running" while the answers given do not end it)
RECURSIVE AloneOutcome(_, _)
AloneOutcome(answers, att) ==
  IF att >= maxAttempts THEN <<"Polling timeout", att>>
  ELSE IF answers = <<>> THEN <<"running", att>>
  ELSE IF Head(answers) = "Polling error" THEN <<"Polling error", att + 1>>
  ELSE IF Head(answers) = "Poll SUCCESS" THEN <<"Generation completed", att + 1>>
  ELSE IF Head(answers) = "Poll FAILURE" THEN <<"Generation failed", att + 1>>
  ELSE AloneOutcome(Tail(answers), att + 1)

\* (SpecTrackers) one task under either tracker, with the assumption that
\* every upstream call, stream and timer the task waits for completes; the
\* default of 60 attempts is followed with automatic saving off
NextTrackers ==
  \E r \in PollSlots :
     \/ StartTask(r)
     \/ PollResponse(r)
     \/ PollTimer(r)
     \/ SaveFetchResponse(r)
     \/ SaveStreamDone(r)
     \/ SaveS3Done(r)
     \/ LegacyStartTask(r)
     \/ LegacyTimer(r)
     \/ LegacyPollResponse(r)
     \/ LegacySaveDone(r)

Completes ==
  \A r \in PollSlots :
     /\ WF_vars(PollResponse(r)) /\ WF_vars(PollTimer(r))
     /\ WF_vars(SaveFetchResponse(r)) /\ WF_vars(SaveStreamDone(r))
     /\ WF_vars(SaveS3Done(r))
     /\ WF_vars(LegacyTimer(r)) /\ WF_vars(LegacyPollResponse(r))
     /\ WF_vars(LegacySaveDone(r))

InitTrackers ==
  /\ env \in {e \in Envs : /\ e.API_KEY /\ ~e.CLIENT_API_KEY
                           /\ e.POLL_BASE_DELAY_MS = 0
                           /\ e.USE_S3 => e.AUTO_DOWNLOAD
                           /\ e.AUTO_DOWNLOAD => e.MAX_POLL_ATTEMPTS > 0}
  /\ InitSlots

SpecTrackers == InitTrackers /\ [][NextTrackers]_vars /\ Completes

\* ------------------------------------------------------------ HTTP requests
NoUrl == [given |-> FALSE, parse |-> FALSE, hostname |-> <<>>]

Request(kind, key, json, engine, m, prompt, lyrics, id, u) ==
  [kind |-> kind, key |-> key, json |-> json, engine |-> engine, mode |-> m,
   prompt |-> prompt, lyrics |-> lyrics, id |-> id, url |-> u]

\* one response: res.writeHead(code, ...); res.end(body)
Resp(code, st, msg, id, paths) ==
  [code |-> code, status |-> st, message |-> msg, taskId |-> id, song_paths |-> paths]

\* an error answer that ends the handler
Answer(r, code, st, msg) ==
  /\ res' = [res EXCEPT ![r] = Append(@, Resp(code, st, msg, NoId, <<>>))]
  /\ trace' = [trace EXCEPT ![r] = Append(@, Ev("respond", code))]
  /\ pc' = [pc EXCEPT ![r] = "done"]

\* --------------------------------------------------------- POST /generate
\* The x-client-key / x-api-key header is absent, the configured key, or
\* another one; the body is not JSON, or a JSON object whose fields engine
\* and mode are absent or one of the texts the handler compares with, and
\* whose prompt and lyrics are truthy or not.
GenerateRequests ==
  {Request("generate", k, FALSE, "absent", "absent", FALSE, FALSE, NoId, NoUrl) :
     k \in {"absent", "good", "bad"}}
  \cup
  {Request("generate", k, TRUE, e, m, pr, ly, NoId, NoUrl) :
     k \in {"absent", "good", "bad"},
     e \in {"absent", "sonauto", "acestep"},
     m \in {"absent", "custom", "prompt", "instrumental", "other"},
     pr \in BOOLEAN, ly \in BOOLEAN}

\* const engine = payload.engine || 'sonauto'
Engine(q) == IF q.engine = "absent" THEN "sonauto" ELSE q.engine

\* The throws of lines 186-225, in order: "ok" when the Sonauto payload is
\* built, else the message of the Error thrown.
Validate(q) ==
  IF ~env.API_KEY THEN "Server missing Sonauto API key (EXPO_PUBLIC_SONAUTO_API_KEY)"
  ELSE IF q.mode = "absent" THEN "Mode missing (custom/prompt/instrumental)"
  ELSE IF q.mode = "instrumental" THEN "ok"
  ELSE IF q.mode = "prompt"
       THEN IF ~q.prompt THEN "Prompt missing for prompt mode" ELSE "ok"
  ELSE IF q.mode = "custom"
       THEN IF ~q.lyrics THEN "Lyrics missing for custom mode" ELSE "ok"
  ELSE "Unknown mode"

\* handleAcestepGeneration(req, res, payload) up to its first await: the task
\* id is made from the clock, the response is sent, the messages are built
\* from whatever the payload holds, and the ACE-Step fetch is issued.
handleAcestepGeneration(r) ==
  LET id == <<"acestep-">> \o NumText(now) IN
  /\ taskId' = [taskId EXCEPT ![r] = id]
  /\ res' = [res EXCEPT ![r] = Append(@, Resp(200, "absent", "", id, <<>>))]
  /\ trace' = [trace EXCEPT ![r] =
                 Append(Append(@, Ev("respond", 200)), Ev("fetch ACE-Step", 0))]
  /\ pc' = [pc EXCEPT ![r] = "aceFetch"]
  /\ UNCHANGED <<mode, attempt>>

\* const provided = req.headers['x-client-key'] || req.headers['x-api-key']:
\* each header is absent (or empty), the configured key, or another text; the
\* key field of a request holds the value of provided
HeaderValues == {"absent", "good", "bad"}
Provided(clientKey, apiKey) == IF clientKey # "absent" THEN clientKey ELSE apiKey

\* Faulty variant of GenerateArrives: only a header that is present is
\* compared with the configured key.
GenerateArrivesAbsentPasses(r, q) ==
  /\ pc[r] = "idle"
  /\ req' = [req EXCEPT ![r] = q]
  /\ IF env.CLIENT_API_KEY /\ q.key = "bad"
     THEN Answer(r, 401, "ERROR", "Unauthorized (invalid client key)")
     ELSE /\ pc' = [pc EXCEPT ![r] = "body"]
          /\ UNCHANGED <<res, trace>>
  /\ UNCHANGED <<env, attempt, taskId, mode, song_paths, j, delay, files, writes,
                 now, rd, written>>

\* the request arrives: the client key check, then the body is awaited
GenerateArrives(r, q) ==
  /\ pc[r] = "idle"
  /\ req' = [req EXCEPT ![r] = q]
  /\ IF env.CLIENT_API_KEY /\ q.key # "good"
     THEN Answer(r, 401, "ERROR", "Unauthorized (invalid client key)")
     ELSE /\ pc' = [pc EXCEPT ![r] = "body"]
          /\ UNCHANGED <<res, trace>>
  /\ UNCHANGED <<env, attempt, taskId, mode, song_paths, j, delay, files, writes,
                 now, rd, written>>

GenerateRequest(r) == \E q \in GenerateRequests : GenerateArrives(r, q)

\* req.on('end'): lines 177-228, up to the await of the submit call
GenerateBodyEnd(r) ==
  LET q == req[r] IN
  /\ pc[r] = "body"
  /\ IF ~q.json
     THEN /\ Answer(r, 400, "ERROR", "Unexpected token")
          /\ UNCHANGED <<taskId, mode, attempt>>
     ELSE IF Engine(q) = "acestep"
     THEN handleAcestepGeneration(r)
     ELSE IF Validate(q) # "ok"
     THEN /\ Answer(r, 400, "ERROR", Validate(q))
          /\ UNCHANGED <<taskId, mode, attempt>>
     ELSE /\ pc' = [pc EXCEPT ![r] = "submit"]
          /\ trace' = [trace EXCEPT ![r] = Append(@, Ev("fetch /generations", 0))]
          /\ UNCHANGED <<res, taskId, mode, attempt>>
  /\ UNCHANGED <<env, req, song_paths, j, delay, files, writes, now, rd, written>>

\* What the Sonauto API answers to the submit call.
SubmitReplies ==
  {Reply("reject", FALSE, "raw", "absent", Absent, NoId, NoId)}
  \cup {Reply("resolve", FALSE, b, "absent", Absent, NoId, NoId) : b \in {"raw", "object"}}
  \cup {Reply("resolve", TRUE, b, "absent", Absent, NoId, NoId) : b \in {"raw", "null"}}
  \cup {Reply("resolve", TRUE, "object", "absent", Absent, tid, id) :
          tid \in {NoId, <<"a">>}, id \in {NoId, <<"a", "_", "1">>}}

\* genRes && genRes.task_id ? genRes.task_id : (genRes && genRes.id) ? genRes.id : null
TaskIdOf(genRes) ==
  IF ~genRes.isNull /\ genRes.task_id # NoId THEN genRes.task_id
  ELSE IF ~genRes.isNull /\ genRes.id # NoId THEN genRes.id
  ELSE NoId

\* Faulty variant of SubmitAccepted: the polling is started before the
\* response is written.
SubmitAcceptedPollFirst(r, id) ==
  LET h == LoopHead(0, trace[r]) IN
  /\ res' = [res EXCEPT ![r] = Append(@, Resp(200, "SUBMITTED", "", id, <<>>))]
  /\ taskId' = [taskId EXCEPT ![r] = id]
  /\ mode' = [mode EXCEPT ![r] = req[r].mode]
  /\ attempt' = [attempt EXCEPT ![r] = h.attempt]
  /\ pc' = [pc EXCEPT ![r] = h.pc]
  /\ trace' = [trace EXCEPT ![r] = Append(h.trace, Ev("respond", 200))]

\* lines 237-242: the SUBMITTED response is written and ended, then
\* handlePolling is called and runs to its first await
SubmitAccepted(r, id) ==
  /\ res' = [res EXCEPT ![r] = Append(@, Resp(200, "SUBMITTED", "", id, <<>>))]
  /\ StartPolling(r, id, req[r].mode, Append(trace[r], Ev("respond", 200)))

\* Faulty variant of SubmitSettled: the answer's task id is used unchecked
\* (const taskId = genRes.task_id), so an answer without one is accepted.
SubmitSettledUnchecked(r, reply) ==
  LET got == apiCall(reply) IN
  /\ pc[r] = "submit"
  /\ IF got.threw
     THEN /\ Answer(r, 400, "ERROR", "API error")
          /\ UNCHANGED <<taskId, mode, attempt>>
     ELSE SubmitAccepted(r, got.value.task_id)
  /\ UNCHANGED <<env, req, song_paths, j, delay, files, writes, now, rd, written>>

\* the submit call settles: lines 228-247
SubmitSettled(r, reply) ==
  LET got == apiCall(reply) IN
  /\ pc[r] = "submit"
  /\ IF got.threw
     THEN /\ Answer(r, 400, "ERROR", "API error")
          /\ UNCHANGED <<taskId, mode, attempt>>
     ELSE IF TaskIdOf(got.value) = NoId
     THEN /\ Answer(r, 502, "ERROR", "Invalid generation response")
          /\ UNCHANGED <<taskId, mode, attempt>>
     ELSE SubmitAccepted(r, TaskIdOf(got.value))
  /\ UNCHANGED <<env, req, song_paths, j, delay, files, writes, now, rd, written>>

SubmitResponse(r) == \E reply \in SubmitReplies : SubmitSettled(r, reply)

\* (SpecGen) one POST /generate request, from its arrival to the point where
\* its background work is suspended on its first upstream call
InitGen ==
  /\ env \in {e \in Envs : /\ ~e.AUTO_DOWNLOAD /\ ~e.USE_S3
                          /\ e.MAX_POLL_ATTEMPTS = 0 /\ e.POLL_BASE_DELAY_MS = 0}
  /\ InitSlots

GenSlots == {1}

NextGen ==
  \E r \in GenSlots :
     \/ GenerateRequest(r)
     \/ GenerateBodyEnd(r)
     \/ SubmitResponse(r)

SpecGen == InitGen /\ [][NextGen]_vars

\* ------------------------------------------- handleAcestepGeneration, cont.
\* base64 of each chunk; Buffer.from(text, "base64") decodes what is base64
\* and yields other bytes for text that is not
Base64Of == [c \in {"a1", "a2", "b1", "b2"} |->
               IF c = "a1" THEN "YTE=" ELSE IF c = "a2" THEN "YTI="
               ELSE IF c = "b1" THEN "YjE=" ELSE "YjI="]

Base64Encode(bytes) == [i \in 1..Len(bytes) |-> Base64Of[bytes[i]]]

Base64Decode(text) ==
  [i \in 1..Len(text) |->
     IF \E c \in DOMAIN Base64Of : Base64Of[c] = text[i]
     THEN CHOOSE c \in DOMAIN Base64Of : Base64Of[c] = text[i]
     ELSE "??"]

\* audioUrl.replace("data:audio/mpeg;base64,", ""): the first occurrence goes
StripDataPrefix(u) ==
  LET at == {i \in 1..Len(u) : u[i] = "data:audio/mpeg;base64,"} IN
  IF at = {} THEN u
  ELSE LET k == CHOOSE i \in at : \A i2 \in at : i <= i2
       IN SubSeq(u, 1, k - 1) \o SubSeq(u, k + 1, Len(u))

\* What the ACE-Step API answers: the fetch rejects; a non-2xx answer; a 2xx
\* answer without choices[0].message.audio; one whose audio array is empty;
\* one with a data URL (of the expected media type or another).
AceReply(f, ok, audio, u) == [fetch |-> f, ok |-> ok, audio |-> audio, url |-> u]

AceReplies ==
  {AceReply("reject", FALSE, "none", <<>>), AceReply("resolve", FALSE, "none", <<>>),
   AceReply("resolve", TRUE, "none", <<>>), AceReply("resolve", TRUE, "empty", <<>>)}
  \cup {AceReply("resolve", TRUE, "url", <<"data:audio/mpeg;base64,">> \o Base64Encode(b)) :
          b \in Payloads}
  \cup {AceReply("resolve", TRUE, "url", <<"data:audio/wav;base64,">> \o Base64Encode(<<"a1", "a2">>))}

\* the ACE-Step fetch settles: lines 406-447
AcestepSettled(r, reply) ==
  LET name == taskId[r] \o <<".mp3">>
      bytes == Base64Decode(StripDataPrefix(reply.url))
  IN
  /\ pc[r] = "aceFetch"
  /\ IF reply.fetch = "reject" \/ ~reply.ok \/ reply.audio # "url"
     THEN /\ trace' = [trace EXCEPT ![r] = Append(@, Ev("ACE-Step error", 0))]
          /\ pc' = [pc EXCEPT ![r] = "done"]
          /\ UNCHANGED <<files, writes, written>>
     ELSE /\ files' = PutFile(files, name, bytes)
          /\ written' = written \cup {<<name, bytes>>}
          /\ writes' = writes \cup {[by |-> r, idx |-> 1, name |-> name]}
          /\ IF env.USE_S3
             THEN /\ trace' = [trace EXCEPT ![r] =
                      Append(Append(@, Ev("writeFileSync", 1)), Ev("putObject", 1))]
                  /\ pc' = [pc EXCEPT ![r] = "aceS3"]
             ELSE /\ trace' = [trace EXCEPT ![r] = Append(@, Ev("writeFileSync", 1))]
                  /\ pc' = [pc EXCEPT ![r] = "done"]
  /\ UNCHANGED <<env, req, attempt, taskId, mode, song_paths, j, delay, now, rd, res>>

AcestepResponse(r) == \E reply \in AceReplies : AcestepSettled(r, reply)

\* s3.putObject(params).promise() settles: logged either way
AcestepS3Settled(r, ok) ==
  /\ pc[r] = "aceS3"
  /\ trace' = [trace EXCEPT ![r] =
                 Append(@, Ev(IF ok THEN "uploaded to S3" ELSE "ACE-Step error", 0))]
  /\ pc' = [pc EXCEPT ![r] = "done"]
  /\ UNCHANGED <<env, req, attempt, taskId, mode, song_paths, j, delay, files, writes,
                 now, rd, res, written>>

AcestepS3Done(r) == \E ok \in BOOLEAN : AcestepS3Settled(r, ok)

\* Date.now() moves on
Tick ==
  /\ now < MaxClock
  /\ now' = now + 1
  /\ UNCHANGED <<env, req, pc, trace, attempt, taskId, mode, song_paths, j, delay,
                 files, writes, rd, res, written>>

\* ------------------------------------------------------ GET /status/:taskId
\* encodeURIComponent: letters, digits and - _ . stay, + and % are escaped
EncodeToken(t) ==
  IF t = "+" THEN <<"%", "2", "B">>
  ELSE IF t = "%" THEN <<"%", "2", "5">>
  ELSE <<t>>

RECURSIVE encodeURIComponent(_)
encodeURIComponent(text) ==
  IF text = <<>> THEN <<>>
  ELSE EncodeToken(Head(text)) \o encodeURIComponent(Tail(text))

\* Faulty variant of StatusLocal: the test of fs.existsSync is inverted.
StatusLocalInverted(id) ==
  IF (id \o <<".mp3">>) \notin DOMAIN files
  THEN Resp(200, "SUCCESS", "", NoId, << <<"/download/">> \o encodeURIComponent(id) >>)
  ELSE Resp(200, "PROCESSING", "", NoId, <<>>)

\* lines 256-277: the answer for an acestep- task id, from the store alone
StatusLocal(id) ==
  IF (id \o <<".mp3">>) \in DOMAIN files
  THEN Resp(200, "SUCCESS", "", NoId, << <<"/download/">> \o encodeURIComponent(id) >>)
  ELSE Resp(200, "PROCESSING", "", NoId, <<>>)

\* the request arrives: lines 253-281, up to the await of the status call
StatusArrives(r, id) ==
  /\ pc[r] = "idle"
  /\ req' = [req EXCEPT ![r] =
               Request("status", "absent", FALSE, "absent", "absent", FALSE, FALSE, id, NoUrl)]
  /\ IF StartsWith(id, <<"acestep-">>)
     THEN /\ res' = [res EXCEPT ![r] = Append(@, StatusLocal(id))]
          /\ trace' = [trace EXCEPT ![r] = Append(@, Ev("respond", 200))]
          /\ pc' = [pc EXCEPT ![r] = "done"]
     ELSE IF ~env.API_KEY
     THEN Answer(r, 400, "ERROR", "Missing Sonauto API key")
     ELSE /\ pc' = [pc EXCEPT ![r] = "statusFetch"]
          /\ trace' = [trace EXCEPT ![r] = Append(@, Ev("fetch /generations/:id", 0))]
          /\ UNCHANGED res
  /\ UNCHANGED <<env, attempt, taskId, mode, song_paths, j, delay, files, writes,
                 now, rd, written>>

\* the status call settles: lines 281-287; the upstream body is passed on
StatusSettled(r, reply) ==
  LET got == apiCall(reply) IN
  /\ pc[r] = "statusFetch"
  /\ IF got.threw
     THEN Answer(r, 400, "ERROR", "API error")
     ELSE /\ res' = [res EXCEPT ![r] =
                 Append(@, Resp(200, IF got.value.isNull THEN "null" ELSE got.value.status,
                                "", NoId, <<>>))]
          /\ trace' = [trace EXCEPT ![r] = Append(@, Ev("respond", 200))]
          /\ pc' = [pc EXCEPT ![r] = "done"]
  /\ UNCHANGED <<env, req, attempt, taskId, mode, song_paths, j, delay, files, writes,
                 now, rd, written>>

StatusResponse(r) == \E reply \in StatusReplies : StatusSettled(r, reply)

\* ---------------------------------------------------- GET /download/:taskId
\* lines 292-311 and, for another id, the fall through to the 404 of line 351
DownloadIdArrives(r, id) ==
  LET name == id \o <<".mp3">> IN
  /\ pc[r] = "idle"
  /\ req' = [req EXCEPT ![r] =
               Request("downloadId", "absent", FALSE, "absent", "absent", FALSE, FALSE, id, NoUrl)]
  /\ IF id # <<>> /\ StartsWith(id, <<"acestep-">>)
     THEN IF name \notin DOMAIN files
          THEN /\ Answer(r, 404, "ERROR", "File not found")
               /\ UNCHANGED rd
          ELSE /\ res' = [res EXCEPT ![r] = Append(@, Resp(200, "absent", "", NoId, <<>>))]
               /\ trace' = [trace EXCEPT ![r] = Append(@, Ev("respond", 200))]
               /\ rd' = [rd EXCEPT ![r] = [name |-> name, pos |-> 0, out |-> <<>>]]
               /\ pc' = [pc EXCEPT ![r] = "reading"]
     ELSE /\ Answer(r, 404, "absent", "Not found")
          /\ UNCHANGED rd
  /\ UNCHANGED <<env, attempt, taskId, mode, song_paths, j, delay, files, writes,
                 now, written>>

\* streamPipeline(fs.createReadStream(filePath), res): the read stream hands
\* over the next chunk of the file as it is now, or ends; an I/O error is
\* logged
DownloadRead(r, ok) ==
  LET f == files[rd[r].name] IN
  /\ pc[r] = "reading"
  /\ IF ~ok
     THEN /\ trace' = [trace EXCEPT ![r] = Append(@, Ev("Local download error", 0))]
          /\ pc' = [pc EXCEPT ![r] = "done"]
          /\ UNCHANGED rd
     ELSE IF rd[r].pos < Len(f)
     THEN /\ rd' = [rd EXCEPT ![r] = [name |-> @.name, pos |-> @.pos + 1,
                                      out |-> Append(@.out, f[@.pos + 1])]]
          /\ UNCHANGED <<trace, pc>>
     ELSE /\ trace' = [trace EXCEPT ![r] = Append(@, Ev("served", 0))]
          /\ pc' = [pc EXCEPT ![r] = "done"]
          /\ UNCHANGED rd
  /\ UNCHANGED <<env, req, attempt, taskId, mode, song_paths, j, delay, files, writes,
                 now, res, written>>

DownloadChunk(r) == \E ok \in BOOLEAN : DownloadRead(r, ok)

\* (SpecAce) ACE-Step submissions with the status and download requests for
\* their task ids, interleaved at the awaits
AceGenerateRequests ==
  {q \in GenerateRequests : /\ q.json /\ q.engine = "acestep" /\ q.key = "good"
                            /\ q.mode = "prompt" /\ q.prompt /\ ~q.lyrics}

\* task ids a client asks about: of an ACE-Step task, with a character that
\* encodeURIComponent escapes, and of a Sonauto task
QueryIds ==
  {<<"acestep-">> \o NumText(n) : n \in 1..MaxClock}
  \cup {<<"acestep-", "1", "+">>, <<"a">>}

InitAce ==
  /\ env \in {e \in Envs : /\ e.API_KEY /\ ~e.CLIENT_API_KEY /\ ~e.AUTO_DOWNLOAD
                          /\ e.MAX_POLL_ATTEMPTS = 0 /\ e.POLL_BASE_DELAY_MS = 0}
  /\ InitSlots

NextAce ==
  \/ Tick
  \/ \E r \in Slots :
        \/ \E q \in AceGenerateRequests : GenerateArrives(r, q)
        \/ GenerateBodyEnd(r)
        \/ AcestepResponse(r)
        \/ AcestepS3Done(r)
        \/ \E id \in QueryIds : StatusArrives(r, id)
        \/ StatusResponse(r)
        \/ \E id \in QueryIds : DownloadIdArrives(r, id)
        \/ DownloadChunk(r)

SpecAce == InitAce /\ [][NextAce]_vars

\* (SpecStatus) one ACE-Step submission and one GET /status request
StatusSlots == {1, 2}

NextStatus ==
  \/ Tick
  \/ \E r \in StatusSlots :
        \/ \E q \in AceGenerateRequests : GenerateArrives(r, q)
        \/ GenerateBodyEnd(r)
        \/ AcestepResponse(r)
        \/ AcestepS3Done(r)
        \/ \E id \in QueryIds : StatusArrives(r, id)
        \/ StatusResponse(r)

SpecStatus == InitAce /\ [][NextStatus]_vars

\* (SpecObserve) one ACE-Step submission and a client that keeps asking
\* GET /status for the task id it was given, one request after the other;
\* every upstream call completes and the client goes on asking
ObserverSlots == {2}

\* the client asks for the status of a task id that POST /generate answered
PollStatus(r) ==
  \E g \in GenSlots : taskId[g] # NoId /\ StatusArrives(r, taskId[g])

\* the answered status request is over; the server's callback runs again, with
\* a new req and res, for the client's next request
StatusAgain(r) ==
  /\ pc[r] = "done" /\ req[r].kind = "status"
  /\ req' = [req EXCEPT ![r] = NoReq]
  /\ res' = [res EXCEPT ![r] = <<>>]
  /\ trace' = [trace EXCEPT ![r] = <<>>]
  /\ pc' = [pc EXCEPT ![r] = "idle"]
  /\ UNCHANGED <<env, attempt, taskId, mode, song_paths, j, delay, files, writes,
                 now, rd, written>>

NextObserve ==
  \/ Tick
  \/ \E r \in GenSlots :
        \/ \E q \in AceGenerateRequests : GenerateArrives(r, q)
        \/ GenerateBodyEnd(r)
        \/ AcestepResponse(r)
        \/ AcestepS3Done(r)
  \/ \E r \in ObserverSlots :
        \/ PollStatus(r)
        \/ StatusAgain(r)

ObserveFairness ==
  /\ \A r \in GenSlots :
        /\ WF_vars(GenerateBodyEnd(r))
        /\ WF_vars(AcestepResponse(r))
        /\ WF_vars(AcestepS3Done(r))
  /\ \A r \in ObserverSlots :
        /\ WF_vars(PollStatus(r))
        /\ WF_vars(StatusAgain(r))

SpecObserve == InitAce /\ [][NextObserve]_vars /\ ObserveFairness

\* ------------------------------------------------------ GET /download?url=
MaxHostLen == 5

\* pieces of host names: labels are made of x, sonauto, ai, com; "." parts them
HostTokens == {"x", "sonauto", ".", "ai", "com"}

\* host names new URL() yields: labels parted by single dots
Hostnames ==
  {h \in UNION {[1..n -> HostTokens] : n \in 1..MaxHostLen} :
     /\ h[1] # "." /\ h[Len(h)] # "."
     /\ \A i \in 1..(Len(h) - 1) : ~(h[i] = "." /\ h[i + 1] = ".")}

\* the url query parameter: absent, text new URL() rejects, or a URL
Urls ==
  {NoUrl, [given |-> TRUE, parse |-> FALSE, hostname |-> <<>>]}
  \cup {[given |-> TRUE, parse |-> TRUE, hostname |-> h] : h \in Hostnames}

\* isAllowedTrackHostname: lines 119-126
isAllowedTrackHostname(u) ==
  /\ u.parse
  /\ \/ EndsWith(u.hostname, <<"sonauto", ".", "ai">>)
     \/ Includes(u.hostname, <<"sonauto", ".", "ai">>)

\* the request arrives: lines 314-329, up to the await of the fetch
DownloadUrlArrives(r, u) ==
  /\ pc[r] = "idle"
  /\ req' = [req EXCEPT ![r] =
               Request("downloadUrl", "absent", FALSE, "absent", "absent", FALSE, FALSE, NoId, u)]
  /\ IF ~u.given
     THEN Answer(r, 400, "ERROR", "Missing url query parameter")
     ELSE IF ~isAllowedTrackHostname(u)
     THEN Answer(r, 400, "ERROR", "Track URL not allowed")
     ELSE /\ pc' = [pc EXCEPT ![r] = "dlFetch"]
          /\ trace' = [trace EXCEPT ![r] = Append(@, Ev("fetch track", 0))]
          /\ UNCHANGED res
  /\ UNCHANGED <<env, attempt, taskId, mode, song_paths, j, delay, files, writes,
                 now, rd, written>>

DownloadUrlRequest(r) == \E u \in Urls : DownloadUrlArrives(r, u)

\* the fetch settles: lines 329-340 and the catch of 341-345
DownloadUrlSettled(r, outcome) ==
  /\ pc[r] = "dlFetch"
  /\ IF outcome = "reject"
     THEN /\ res' = [res EXCEPT ![r] = Append(@, Resp(500, "ERROR", "fetch failed", NoId, <<>>))]
          /\ trace' = [trace EXCEPT ![r] =
                Append(Append(@, Ev("Download proxy error", 0)), Ev("respond", 500))]
          /\ pc' = [pc EXCEPT ![r] = "done"]
     ELSE IF outcome = "notok"
     THEN Answer(r, 502, "ERROR", "Failed to fetch track")
     ELSE /\ res' = [res EXCEPT ![r] = Append(@, Resp(200, "absent", "", NoId, <<>>))]
          /\ trace' = [trace EXCEPT ![r] = Append(@, Ev("respond", 200))]
          /\ pc' = [pc EXCEPT ![r] = "dlStream"]
  /\ UNCHANGED <<env, req, attempt, taskId, mode, song_paths, j, delay, files, writes,
                 now, rd, written>>

DownloadUrlResponse(r) == \E o \in {"reject", "notok", "ok"} : DownloadUrlSettled(r, o)

\* streamPipeline(trackRes.body, res) settles; when it rejects, the catch
\* calls res.writeHead(500) on a response whose head is sent, which throws
DownloadUrlStreamed(r, ok) ==
  /\ pc[r] = "dlStream"
  /\ trace' = [trace EXCEPT ![r] =
                 IF ok THEN Append(@, Ev("served", 0))
                 ELSE Append(Append(@, Ev("Download proxy error", 0)),
                             Ev("ERR_HTTP_HEADERS_SENT", 500))]
  /\ pc' = [pc EXCEPT ![r] = "done"]
  /\ UNCHANGED <<env, req, attempt, taskId, mode, song_paths, j, delay, files, writes,
                 now, rd, res, written>>

DownloadUrlStreamDone(r) == \E ok \in BOOLEAN : DownloadUrlStreamed(r, ok)

\* (SpecDownload) one GET /download?url= request
DownloadSlots == {1}

NextDownload ==
  \E r \in DownloadSlots :
     \/ DownloadUrlRequest(r)
     \/ DownloadUrlResponse(r)
     \/ DownloadUrlStreamDone(r)

SpecDownload == InitAce /\ [][NextDownload]_vars

\* ================================================================ properties
Last(tr) == tr[Len(tr)]
Ended(r) == Len(trace[r]) > 0 /\ Last(trace[r]).ev \in EndLogs
EndedWith(r, e) == Len(trace[r]) > 0 /\ Last(trace[r]).ev = e
WritesBy(r) == {w \in writes : w.by = r}

\* C1: in handlePolling a task that has ended -- 'Generation completed'
\* (SUCCESS), 'Generation failed' (FAILURE), 'Polling timeout' (TIMEOUT), or
\* 'Polling error' -- does nothing more: the end log is the last event of its
\* trace, so no status query, backoff timer, save, file write or second end
\* log follows it, and the task is not suspended on anything.
C1_TerminalIsFinal ==
  \A r \in Slots :
     /\ \A i \in 1..Len(trace[r]) :
           trace[r][i].ev \in EndLogs => i = Len(trace[r])
     /\ Ended(r) => pc[r] = "done"

\* C1 witness: a tracker has ended in FAILURE after a backoff and a second
\* status query
C1_Witness ==
  /\ EndedWith(1, "Generation failed")
  /\ Count(trace[1], "setTimeout") >= 1
  /\ Count(trace[1], "query") >= 2

\* C2: the tracker issues at most maxAttempts status queries for one task and
\* its attempt counter never exceeds maxAttempts.
C2_AttemptsBounded ==
  \A r \in Slots :
     /\ attempt[r] <= maxAttempts
     /\ Count(trace[r], "query") <= maxAttempts

\* C2 witness: the bound is attained: maxAttempts queries were made and the
\* task timed out
C2_Witness ==
  /\ EndedWith(1, "Polling timeout")
  /\ Count(trace[1], "query") = maxAttempts
  /\ attempt[1] = maxAttempts

\* C7: downloadAndSaveTrack is invoked at most once per (task, output index);
\* with AUTO_DOWNLOAD a task that completed invoked it exactly once for each
\* index 1..song_paths.length and for no other index; a task that ended
\* otherwise never invoked it.
C7_SaveOncePerIndex ==
  \A r \in Slots :
     LET tr == trace[r]
         saves == {i \in 1..Len(tr) : tr[i].ev = "downloadAndSaveTrack"}
     IN
     /\ \A i1, i2 \in saves : tr[i1].arg = tr[i2].arg => i1 = i2
     /\ (env.AUTO_DOWNLOAD /\ EndedWith(r, "Generation completed")) =>
           {tr[i].arg : i \in saves} = 1..song_paths[r]
     /\ (Ended(r) /\ ~EndedWith(r, "Generation completed")) => saves = {}

\* C7 witness: a completed task with two outputs, one of whose saves failed
C7_Witness ==
  /\ env.AUTO_DOWNLOAD
  /\ EndedWith(1, "Generation completed")
  /\ song_paths[1] = 2
  /\ Count(trace[1], "downloadAndSaveTrack") = 2
  /\ Count(trace[1], "Save failed") >= 1

\* ---- POST /generate
Fetches == {"fetch /generations", "fetch ACE-Step"}
Handled(r) == req[r].kind = "generate" /\ pc[r] \notin {"idle", "body"}
FieldMissing(q) ==
  \/ q.mode = "custom" /\ ~q.lyrics
  \/ q.mode = "prompt" /\ ~q.prompt

\* C3 (as the spec states it): a POST /generate request with mode custom and
\* no lyrics, or mode prompt and no prompt, is answered with one client error
\* (4xx) and no call to a provider is made for it, whichever engine it names.
C3_MissingFieldRejected ==
  \A r \in Slots :
     (Handled(r) /\ req[r].json /\ FieldMissing(req[r])) =>
        /\ pc[r] = "done"
        /\ Len(res[r]) = 1 /\ res[r][1].code \in 400..499
        /\ \A e \in Fetches : Count(trace[r], e) = 0

\* C4 (as the spec states it): a POST /generate request that passed the client
\* key check on a server holding a Sonauto API key, and whose body omits mode,
\* is answered 400 with the message about the missing mode, gets no task id
\* and starts no background work, whichever engine it names.
C4_MissingModeRejected ==
  \A r \in Slots :
     (Handled(r) /\ req[r].json /\ req[r].mode = "absent" /\ env.API_KEY
        /\ (env.CLIENT_API_KEY => req[r].key = "good")) =>
        /\ pc[r] = "done"
        /\ res[r] = <<Resp(400, "ERROR", "Mode missing (custom/prompt/instrumental)",
                           NoId, <<>>)>>
        /\ taskId[r] = NoId
        /\ \A e \in Fetches \cup {"query"} : Count(trace[r], e) = 0

\* C9: once background work of a submission exists (a status query or the
\* ACE-Step call was issued, or a task id was taken), the one response of
\* the request, 200 carrying that task id, was written and ended before the
\* first such call.
C9_RespondedBeforeWork ==
  \A r \in Slots :
     LET tr == trace[r]
         work == {i \in 1..Len(tr) :
                    tr[i].ev \in {"query", "fetch ACE-Step", "setTimeout"} \cup EndLogs}
     IN
     /\ \A i \in work : \E k \in 1..(i - 1) : tr[k] = Ev("respond", 200)
     /\ (work # {} \/ taskId[r] # NoId) =>
           /\ Len(res[r]) = 1
           /\ res[r][1].code = 200
           /\ res[r][1].taskId = taskId[r] /\ taskId[r] # NoId

\* C9 witness: a Sonauto submission was accepted; its SUBMITTED response is
\* out and its first status query is in flight
C9_Witness ==
  /\ pc[1] = "query"
  /\ Engine(req[1]) = "sonauto"
  /\ res[1] = <<Resp(200, "SUBMITTED", "", taskId[1], <<>>)>>
  /\ trace[1] = <<Ev("fetch /generations", 0), Ev("respond", 200), Ev("query", 1)>>

\* ---- GET /download?url=
\* sonauto.ai or a subdomain of it
InProviderDomain(h) ==
  \/ h = <<"sonauto", ".", "ai">>
  \/ EndsWith(h, <<".", "sonauto", ".", "ai">>)

\* C5 (as the spec states it): a GET /download?url= request whose url does
\* not parse, or whose host is neither sonauto.ai nor a subdomain of it, is
\* answered 400 and no fetch is made for it.
C5_ForeignHostRejected ==
  \A r \in Slots :
     LET u == req[r].url IN
     (req[r].kind = "downloadUrl" /\ u.given
        /\ ~(u.parse /\ InProviderDomain(u.hostname))) =>
        /\ pc[r] = "done"
        /\ Len(res[r]) = 1 /\ res[r][1].code = 400
        /\ Count(trace[r], "fetch track") = 0

\* ---- ACE-Step tasks
\* C6: a GET /status request for an id starting with acestep- is answered at
\* once, with no upstream call: SUCCESS with the one locator /download/<id>
\* when <id>.mp3 is in the store at that moment, PROCESSING when it is not.
C6_StatusFromStore ==
  [][\A r \in Slots :
       (pc[r] = "idle" /\ pc'[r] # "idle" /\ req'[r].kind = "status"
          /\ StartsWith(req'[r].id, <<"acestep-">>)) =>
          LET id == req'[r].id IN
          /\ pc'[r] = "done"
          /\ trace'[r] = <<Ev("respond", 200)>>
          /\ res'[r] = << IF (id \o <<".mp3">>) \in DOMAIN files
                          THEN Resp(200, "SUCCESS", "", NoId, << <<"/download/">> \o id >>)
                          ELSE Resp(200, "PROCESSING", "", NoId, <<>>) >>]_vars

\* C6 witness: the status of a finished ACE-Step task was asked and answered
\* SUCCESS with its locator, while another slot holds the task that wrote it
C6_Witness ==
  \E r, g \in Slots :
     /\ req[r].kind = "status" /\ pc[r] = "done"
     /\ req[g].kind = "generate" /\ req[r].id = taskId[g]
     /\ Len(res[r]) = 1 /\ res[r][1].status = "SUCCESS"
     /\ res[r][1].song_paths = << <<"/download/">> \o taskId[g] >>

\* C8 (as the spec states it): two writes to the store under one file name
\* are writes of the same task and the same output index.
C8_NoSharedFileName ==
  \A w1, w2 \in writes :
     w1.name = w2.name => (w1.by = w2.by /\ w1.idx = w2.idx)

\* C10 (as the spec states it): the bytes a finished GET /download/<taskId>
\* has served are the bytes of one write made under that task id.
C10_ServedAsWritten ==
  \A r \in Slots :
     (req[r].kind = "downloadId" /\ EndedWith(r, "served")) =>
        <<rd[r].name, rd[r].out>> \in written

\* ---- handlePolling: failed saves
\* C11: a failed save of one output is only logged: right after the log of
\* 'Save failed' for index k the tracker calls downloadAndSaveTrack for index
\* k + 1, or, k being the last index, logs 'Generation completed'; a task
\* with a failed save that has ended has ended as completed, after a save
\* attempt for every index.
C11_FailedSaveSkipsNothing ==
  \A r \in Slots :
     LET tr == trace[r]
         n == song_paths[r]
         failed == {i \in 1..Len(tr) : tr[i].ev = "Save failed"}
     IN
     /\ \A i \in failed :
           /\ i < Len(tr)
           /\ tr[i + 1] = IF tr[i].arg < n
                          THEN Ev("downloadAndSaveTrack", tr[i].arg + 1)
                          ELSE Ev("Generation completed", n)
     /\ (failed # {} /\ pc[r] = "done") =>
           /\ EndedWith(r, "Generation completed")
           /\ \A k \in 1..n : CountArg(tr, "downloadAndSaveTrack", k) = 1

\* C11 witness: the save of the first of two outputs failed, the second was
\* saved, and the task completed
C11_Witness ==
  /\ song_paths[1] = 2
  /\ CountArg(trace[1], "Save failed", 1) = 1
  /\ CountArg(trace[1], "Saved track", 2) = 1
  /\ EndedWith(1, "Generation completed")

\* C12 (as the spec states it): once the local write of a track is done and
\* the S3 upload was started, the track is recorded as saved whatever the
\* upload does: the log that follows 'putObject' is 'Saved track'.
C12_MirrorFailureStillSaved ==
  \A r \in Slots :
     LET tr == trace[r] IN
     \A i \in 1..(Len(tr) - 1) :
        tr[i].ev = "putObject" => tr[i + 1] = Ev("Saved track", tr[i].arg)

\* ---- handlePolling: transport errors
\* the fetch of a status query rejected, or the upstream answered non-2xx
TransportError(reply) == reply.fetch = "reject" \/ ~reply.ok

\* C13: the step of handlePolling that takes a status answer with a transport
\* error does one thing: it logs 'Polling error' and ends the task (so, by
\* the log being last, no query or save follows); it writes no file and
\* opens no write.
C13_TransportErrorEndsPolling ==
  [][\A r \in Slots : \A reply \in StatusReplies :
       (TransportError(reply) /\ PollSettled(r, reply)) =>
          /\ pc'[r] = "done"
          /\ trace'[r] = Append(trace[r], Ev("Polling error", attempt[r]))
          /\ files' = files /\ writes' = writes /\ written' = written]_vars

\* C13 witness: the second status query of a task ended in 'Polling error'
\* with nothing logged for its answer
C13_Witness ==
  /\ EndedWith(1, "Polling error")
  /\ Count(trace[1], "query") = 2
  /\ Count(trace[1], "Poll other") = 1
  /\ Count(trace[1], "Poll SUCCESS") = 0
  /\ WritesBy(1) = {}

\* ---- handlePolling: timeout
\* C14: a task has ended with 'Polling timeout' exactly when it has ended
\* after maxAttempts status queries each of which was answered with a status
\* that is neither SUCCESS nor FAILURE; such a task called
\* downloadAndSaveTrack for nothing and opened no file.
C14_TimeoutExactly ==
  \A r \in Slots :
     LET tr == trace[r] IN
     /\ EndedWith(r, "Polling timeout") <=>
           /\ pc[r] = "done"
           /\ Count(tr, "query") = maxAttempts
           /\ Count(tr, "Poll other") = maxAttempts
     /\ EndedWith(r, "Polling timeout") =>
           /\ Count(tr, "downloadAndSaveTrack") = 0
           /\ Count(tr, "createWriteStream") = 0
           /\ WritesBy(r) = {}

\* C14 witness: with MAX_POLL_ATTEMPTS=2 and automatic saving on, two pending
\* answers ended the task in TIMEOUT
C14_Witness ==
  /\ env.MAX_POLL_ATTEMPTS = 2 /\ env.AUTO_DOWNLOAD
  /\ EndedWith(1, "Polling timeout")
  /\ Count(trace[1], "Poll other") = 2
  /\ Count(trace[1], "setTimeout") = 2

\* ---- response shapes
\* C15 (as the spec states it): on a server without a client key, every
\* response written to a POST /generate request is 200 with status SUBMITTED
\* and a task id, or 400 with status ERROR and a message.
C15_GenerateResponseShapes ==
  \A r \in Slots :
     (req[r].kind = "generate" /\ ~env.CLIENT_API_KEY) =>
        \A i \in 1..Len(res[r]) :
           LET a == res[r][i] IN
           \/ a.code = 200 /\ a.status = "SUBMITTED" /\ a.taskId # NoId
           \/ a.code = 400 /\ a.status = "ERROR" /\ a.message # ""

\* C16 (as the spec states it): the status field of every response to
\* GET /status/<taskId> is PROCESSING, SUCCESS or FAILURE.
C16_StatusNormalized ==
  \A r \in Slots :
     req[r].kind = "status" =>
        \A i \in 1..Len(res[r]) :
           res[r][i].status \in {"PROCESSING", "SUCCESS", "FAILURE"}

\* C17 (as the spec states it): a GET /download?url= request whose fetch of
\* the track failed before any response head was written, by an exception
\* ('Download proxy error' logged) or by a non-2xx answer, is answered 502.
C17_UpstreamFailureIs502 ==
  \A r \in Slots :
     (req[r].kind = "downloadUrl" /\ pc[r] = "done"
        /\ Count(trace[r], "fetch track") = 1
        /\ Count(trace[r], "respond") = 1
        /\ CountArg(trace[r], "respond", 200) = 0) =>
        res[r][1].code = 502

\* C18 (as the spec states it): without AUTO_DOWNLOAD no background task
\* writes a file to the output directory.
C18_NoSaveWithoutAutoDownload ==
  ~env.AUTO_DOWNLOAD =>
     /\ writes = {}
     /\ DOMAIN files = {}
     /\ \A r \in Slots :
           /\ Count(trace[r], "writeFileSync") = 0
           /\ Count(trace[r], "downloadAndSaveTrack") = 0

\* ---- backoff
\* a <= b for fractions whose denominators are powers of 5
Leq(a, b) ==
  IF a[2] <= b[2] THEN a[1] * (b[2] \div a[2]) <= b[1]
  ELSE a[1] <= b[1] * (a[2] \div b[2])

\* C19: each time the tracker arms its backoff timer, the time it waits is
\* at least the time it waited before (none before the first) and at most
\* 20000 ms.
C19_BackoffMonotoneCapped ==
  [][\A r \in Slots :
       (pc[r] = "query" /\ pc'[r] = "timer") =>
          /\ Leq(TimerDelay(delay[r]), TimerDelay(delay'[r]))
          /\ Leq(TimerDelay(delay'[r]), <<DelayCeiling, 1>>)]_vars

\* C19 witness: with POLL_BASE_DELAY_MS=15000 the tracker waited 18000 ms
\* and is now waiting the ceiling, 20000 ms, after its second query
C19_Witness ==
  /\ env.POLL_BASE_DELAY_MS = 15000
  /\ pc[1] = "timer" /\ attempt[1] = 2
  /\ delay[1] = <<DelayCeiling, 1>>

\* C20 (as the spec states it): the delay armed after the first status query
\* is the base delay (or the ceiling, for a base delay above it).
C20_FirstDelayIsBase ==
  \A r \in Slots :
     (pc[r] = "timer" /\ attempt[r] = 1) =>
        delay[r] = (IF baseDelay <= DelayCeiling THEN <<baseDelay, 1>>
                    ELSE <<DelayCeiling, 1>>)

\* ---- termination
\* the fixed-delay tracker arms its timer before its first query
IsLegacy(r) == Len(trace[r]) > 0 /\ trace[r][1].ev = "setTimeout"
QueryBound(r) == IF IsLegacy(r) THEN LegacyMaxPolls ELSE maxAttempts

\* C21: when everything a task waits for completes, a polling task that was
\* started eventually stops with one of its end logs (completed, failed,
\* timeout, polling error), and it never makes more status queries than
\* maxAttempts (backoff tracker) or 150 (fixed-delay tracker).
C21_PollingStops ==
  /\ [](\A r \in Slots : Count(trace[r], "query") <= QueryBound(r))
  /\ \A r \in Slots :
        (pc[r] # "idle") ~>
           (pc[r] = "done" /\ Last(trace[r]).ev \in EndLogs \cup LegacyEndLogs)

\* C21 witness: the fixed-delay tracker gave up after its 150th query
C21_Witness ==
  /\ IsLegacy(1)
  /\ EndedWith(1, "Polling error: timeout")
  /\ Count(trace[1], "query") = LegacyMaxPolls

\* ---- two tasks at once
\* the answers the status queries of a task got, as its log shows them
AnswerLogs == {"Poll SUCCESS", "Poll FAILURE", "Poll other", "Polling error"}

RECURSIVE Answers(_)
Answers(tr) ==
  IF tr = <<>> THEN <<>>
  ELSE IF Head(tr).ev \in AnswerLogs THEN <<Head(tr).ev>> \o Answers(Tail(tr))
  ELSE Answers(Tail(tr))

\* C22: with two tasks tracked at once, a step of one task leaves the other
\* task's attempt counter, backoff delay and lifecycle state unchanged, and a
\* task that ended did so in the terminal state and after the number of
\* status queries that the same answers give a task tracked alone.
C22_TasksIndependent ==
  /\ [][\A r \in PairSlots :
          (pc'[r] # pc[r] \/ trace'[r] # trace[r]) =>
             \A q \in PairSlots \ {r} :
                /\ attempt'[q] = attempt[q]
                /\ delay'[q] = delay[q]
                /\ pc'[q] = pc[q]]_vars
  /\ [](\A r \in PairSlots :
          pc[r] = "done" =>
             <<Last(trace[r]).ev, Count(trace[r], "query")>>
                = AloneOutcome(Answers(trace[r]), 0))

\* C22 witness: task 1 failed at its second query while task 2, started
\* meanwhile, waits for its first backoff timer
C22_Witness ==
  /\ EndedWith(1, "Generation failed") /\ Count(trace[1], "query") = 2
  /\ pc[2] = "timer" /\ attempt[2] = 1 /\ attempt[1] = 2

\* ---- classification of a status answer
\* C23: a 2xx status answer is classified in this order: status SUCCESS ends
\* the task in success (after its saves), else status FAILURE ends it with
\* 'Generation failed' and no retry, else (any other status, none, or a body
\* that is not JSON) the task waits for its backoff timer, and after the
\* timer is queried again while attempts remain.
C23_ClassifiedInOrder ==
  [][\A r \in PollSlots :
       /\ \A reply \in StatusReplies :
             (reply.fetch = "resolve" /\ reply.ok /\ PollSettled(r, reply)) =>
                LET st == safeJsonResponse(reply).status IN
                IF st = "SUCCESS"
                THEN /\ pc'[r] \in {"saveFetch", "done"}
                     /\ pc'[r] = "done" => Last(trace'[r]).ev = "Generation completed"
                ELSE IF st = "FAILURE"
                THEN pc'[r] = "done" /\ Last(trace'[r]).ev = "Generation failed"
                ELSE pc'[r] = "timer" /\ Last(trace'[r]).ev = "setTimeout"
       /\ (pc[r] = "timer" /\ pc'[r] # "timer" /\ attempt[r] < maxAttempts) =>
             (pc'[r] = "query" /\ attempt'[r] = attempt[r] + 1)]_vars

\* ---- a failed submission
\* the submit call failed: the fetch rejected, the answer is not 2xx, or its
\* body is not an object holding a task id (task_id, or id)
SubmitFailed(reply) ==
  \/ reply.fetch = "reject"
  \/ ~reply.ok
  \/ reply.body # "object"
  \/ (reply.task_id = NoId /\ reply.id = NoId)

\* C24: when the submit call of a Sonauto request fails or its answer holds
\* no task id, the one response written is an error (status ERROR, code 400
\* or 502), never SUBMITTED, no task id is kept and no status query is made:
\* the handler is done without a polling loop.
C24_FailedSubmitIsError ==
  [][\A r \in GenSlots : \A reply \in SubmitReplies :
       (SubmitFailed(reply) /\ SubmitSettled(r, reply)) =>
          /\ Len(res'[r]) = 1
          /\ res'[r][1].status = "ERROR" /\ res'[r][1].code \in {400, 502}
          /\ res'[r][1].taskId = NoId
          /\ taskId'[r] = NoId
          /\ pc'[r] = "done" /\ attempt'[r] = 0
          /\ Count(trace'[r], "query") = 0]_vars

\* C24 witness: a 2xx submit answer without task id was answered 502
C24_Witness ==
  /\ pc[1] = "done" /\ Count(trace[1], "fetch /generations") = 1
  /\ Len(res[1]) = 1 /\ res[1][1].code = 502

\* ---- a failed background generation
\* C25: after the background generation of an ACE-Step task has failed, a
\* client that keeps asking GET /status for its task id is at some point
\* answered something other than PROCESSING.
C25_FailureObservable ==
  \A g \in GenSlots :
     (pc[g] = "done" /\ Count(trace[g], "ACE-Step error") > 0) ~>
        (\E r \in ObserverSlots :
            /\ pc[r] = "done" /\ req[r].kind = "status" /\ req[r].id = taskId[g]
            /\ res[r][1].status # "PROCESSING")

\* ---- the client key
\* C26: with CLIENT_API_KEY configured, a POST /generate request whose key
\* headers do not give the configured key (both absent, or another text) is
\* answered 401 and nothing else happens for it: no provider call, no task
\* id, no background task, whatever engine its body names; every other
\* request, and every request when no client key is configured, is never
\* answered 401.
C26_ClientKeyGate ==
  /\ \A ck \in HeaderValues, ak \in HeaderValues :
        (ck # "good" /\ ak # "good") => Provided(ck, ak) # "good"
  /\ \A r \in GenSlots :
        req[r].kind = "generate" =>
           IF env.CLIENT_API_KEY /\ req[r].key # "good"
           THEN /\ pc[r] = "done"
                /\ res[r] = <<Resp(401, "ERROR", "Unauthorized (invalid client key)", NoId, <<>>)>>
                /\ trace[r] = <<Ev("respond", 401)>>
                /\ taskId[r] = NoId /\ attempt[r] = 0
           ELSE \A i \in 1..Len(res[r]) : res[r][i].code # 401

\* C26 witness: an ACE-Step request without key header was answered 401
C26_Witness ==
  /\ env.CLIENT_API_KEY
  /\ req[1].kind = "generate" /\ req[1].key = "absent" /\ req[1].engine = "acestep"
  /\ Len(res[1]) = 1 /\ res[1][1].code = 401

\* ---- one response head per request
\* C27: a request gets exactly one response head: a handler that is done has
\* written one, none has written two, and no handler calls res.writeHead on
\* a response whose head was already sent, also when the upstream stream of
\* GET /download?url= breaks after the 200 head.
C27_OneResponseHead ==
  \A r \in DownloadSlots :
     /\ Len(res[r]) <= 1
     /\ pc[r] = "done" => Len(res[r]) = 1
     /\ Count(trace[r], "ERR_HTTP_HEADERS_SENT") = 0

====
